---- MODULE Spec2Model ----
(***************************************************************************)
(* A model of the eigenpod proof CLI:                                      *)
(*   - findAllValidatorsForEigenpod, the credential scan (cli/main.go);    *)
(*   - the `checkpoint` and `credentials` actions of main (cli/main.go);   *)
(*   - commands.CredentialsCommand (the batched credentials flow).         *)
(* The scan is checked under SpecScan, the three command flows under Spec. *)
(***************************************************************************)
EXTENDS Integers, Sequences, FiniteSets, TLC

\* ------------------------------------------------------------------ bounds
MaxScanLen == 3          \* longest validator list given to the scan
MaxValidatorIndex == 2   \* validator indices of the pod are 0..MaxValidatorIndex
MaxBatchSize == 3        \* --batch sizes are 1..MaxBatchSize
MaxRuns == 2             \* invocations of the checkpoint command in a row

\* ------------------------------------------------------- program constants
CredentialsLen == 32     \* a validator's WithdrawalCredentials, in bytes
AddressOffset == 12      \* WithdrawalCredentials[12:]
ExecutionPrefix == 1     \* WithdrawalCredentials[0] != 1
\* math.MaxUint64, the "no --validator given" value of SpecificValidator.
\* TLC's integers are 32 bits wide; the value is only ever compared for
\* equality, so the largest integer TLC has stands for it.
MaxUint64 == 2147483647

\* a nil *phase0.Validator; reading a field of it fails, as in the program
Nil == [isNil |-> TRUE]
NoErr == "ok"

VARIABLES
    \* --- the credential scan
    eigenpodAddress,     \* the --podAddress string: [has0x, digits]
    allValidators,       \* beaconState.Validators(): validators or Nil
    outputValidators,    \* what findAllValidatorsForEigenpod returned
    \* --- one invocation of a command
    cmd,                 \* "checkpoint" | "credentials" | "CredentialsCommand" | "scan"
    pc,                  \* position in the command
    args,                \* the flags of the invocation
    outcome,             \* "running" | "ok" (returned nil) | "error" (Panic)
    runs,                \* invocations so far
    \* --- the world outside the process
    chain,               \* the pod contract's state
    \* --- locals of the command
    currentCheckpoint,
    specificValidatorIndex,
    proofs,              \* generated proofs, as the validator indices proven; or Nil
    chunks, txns, chunkI, err,
    \* --- what an observer of the run sees, in order
    trace

scanVars == <<eigenpodAddress, allValidators, outputValidators>>
vars == <<eigenpodAddress, allValidators, outputValidators, cmd, pc, args,
          outcome, runs, chain, currentCheckpoint, specificValidatorIndex,
          proofs, chunks, txns, chunkI, err, trace>>

\* ------------------------------------------------------------- the scan

\* common.FromHex: drop "0x", left-pad an odd number of digits with a 0,
\* decode two digits to a byte.
FromHex(s) ==
    LET d == IF Len(s.digits) % 2 = 1 THEN <<0>> \o s.digits ELSE s.digits
    IN  [i \in 1..(Len(d) \div 2) |-> d[2 * i - 1] * 16 + d[2 * i]]

\* bytes.Equal
BytesEqual(a, b) ==
    /\ Len(a) = Len(b)
    /\ \A i \in 1..Len(a) : a[i] = b[i]

\* the loop of findAllValidatorsForEigenpod from position i (0-based) on
RECURSIVE ScanFrom(_, _, _)
ScanFrom(addrBytes, validators, i) ==
    IF ~(i < Len(validators)) THEN <<>>
    ELSE LET validator == validators[i + 1]
         IN  IF validator = Nil
                \/ validator.WithdrawalCredentials[1] # ExecutionPrefix
             THEN ScanFrom(addrBytes, validators, i + 1)
             ELSE IF BytesEqual(addrBytes,
                                SubSeq(validator.WithdrawalCredentials,
                                       AddressOffset + 1, CredentialsLen))
                  THEN <<[Validator |-> validator, Index |-> i]>>
                       \o ScanFrom(addrBytes, validators, i + 1)
                  ELSE ScanFrom(addrBytes, validators, i + 1)

\* a faulty variant: the prefix byte is not looked at
RECURSIVE ScanFromNoPrefix(_, _, _)
ScanFromNoPrefix(addrBytes, validators, i) ==
    IF ~(i < Len(validators)) THEN <<>>
    ELSE LET validator == validators[i + 1]
         IN  IF validator = Nil
             THEN ScanFromNoPrefix(addrBytes, validators, i + 1)
             ELSE IF BytesEqual(addrBytes,
                                SubSeq(validator.WithdrawalCredentials,
                                       AddressOffset + 1, CredentialsLen))
                  THEN <<[Validator |-> validator, Index |-> i]>>
                       \o ScanFromNoPrefix(addrBytes, validators, i + 1)
                  ELSE ScanFromNoPrefix(addrBytes, validators, i + 1)

findAllValidatorsForEigenpodNoPrefix(address, validators) ==
    ScanFromNoPrefix(FromHex(address), validators, 0)

findAllValidatorsForEigenpod(address, validators) ==
    ScanFrom(FromHex(address), validators, 0)

\* --- the inputs of the scan
\* a hex string of n digits: a's, and a last digit
Digits(n, last) == [i \in 1..n |-> IF i = n THEN last ELSE 10]
PodAddresses ==
    { [has0x |-> p, digits |-> Digits(n, l)] :
        p \in BOOLEAN, n \in {38, 39, 40}, l \in {10, 11} }

Tails == { FromHex([has0x |-> TRUE, digits |-> Digits(n, l)]) :
             n \in {39, 40}, l \in {10, 11} }
Credentials(prefix, mid, tail) ==
    <<prefix>> \o [i \in 1..(AddressOffset - 1) |-> mid] \o tail
ScanValidators ==
    { [WithdrawalCredentials |-> Credentials(p, 0, t)] :
        p \in {0, ExecutionPrefix}, t \in Tails }
    \cup { [WithdrawalCredentials |-> Credentials(ExecutionPrefix, 170, t)] :
             t \in Tails }
    \cup { Nil }

\* a nil *big.Int is the empty set, a set one is {v}
NilInt == {}
\* nil proofs; generated ones are [isNil |-> FALSE, indices |-> <<..>>]
NilProofs == [isNil |-> TRUE]
NoArgs == [none |-> TRUE]
NoChain == [none |-> TRUE]

IdleRun ==
    /\ cmd = "scan" /\ pc = "scan" /\ outcome = "running" /\ runs = 0
    /\ args = NoArgs /\ chain = NoChain /\ currentCheckpoint = 0
    /\ specificValidatorIndex = NilInt /\ proofs = NilProofs
    /\ chunks = <<>> /\ txns = <<>> /\ chunkI = 0 /\ err = NoErr
    /\ trace = <<>>

InitScan ==
    /\ eigenpodAddress \in PodAddresses
    /\ \E n \in 0..MaxScanLen : allValidators \in [1..n -> ScanValidators]
    /\ outputValidators = <<>>
    /\ IdleRun

Scan ==
    /\ cmd = "scan" /\ pc = "scan"
    /\ outputValidators' = findAllValidatorsForEigenpod(eigenpodAddress, allValidators)
    /\ pc' = "scanned"
    /\ UNCHANGED <<eigenpodAddress, allValidators, cmd, args, outcome, runs, chain,
                   currentCheckpoint, specificValidatorIndex, proofs, chunks,
                   txns, chunkI, err, trace>>

NextScan == Scan
SpecScan == InitScan /\ [][NextScan]_vars


\* ------------------------------------------------- helpers of the commands
Range(seq) == { seq[i] : i \in DOMAIN seq }
Min(a, b) == IF a < b THEN a ELSE b

RECURSIVE SortedSeq(_)
SortedSeq(S) ==
    IF S = {} THEN <<>>
    ELSE LET m == CHOOSE x \in S : \A y \in S : x <= y
         IN  <<m>> \o SortedSeq(S \ {m})

RECURSIVE aFlatten(_)
aFlatten(seqs) ==
    IF seqs = <<>> THEN <<>> ELSE Head(seqs) \o aFlatten(Tail(seqs))

\* one entry of the trace: what happened, on which validator indices, and
\* whether it succeeded
Ev(kind, data, ok) == [kind |-> kind, data |-> data, ok |-> ok]

\* the events that are calls to the execution-layer or beacon client
NetworkKinds == {"GetClients", "getCurrentCheckpoint", "startCheckpoint",
                 "Generate", "BlockByNumber", "send"}

\* PanicOnError(message, err): the process ends there when err is not nil
PanicOnError(e) == e # NoErr

\* ------------------------------------------------------ the pod contract
\* startCheckpoint is accepted when no checkpoint is active and the pod holds
\* native ETH to award, or the start is forced
StartAllowed(c, force) ==
    /\ c.currentCheckpointTimestamp = 0
    /\ (force \/ c.hasNativeEth)

\* the checkpoint waits for one proof per verified validator; with none to
\* wait for it is complete at once
StartCheckpoint(c) ==
    [c EXCEPT !.currentCheckpointTimestamp =
                  IF c.verified = {} THEN 0 ELSE c.blockTime,
              !.blockTime = c.blockTime + 1,
              !.proofsRemaining = Cardinality(c.verified),
              !.checkpointed = {}]

\* verifyCheckpointProofs(balanceContainerProof, balanceProofs[])
VerifyCheckpointAllowed(c, indices) ==
    /\ c.currentCheckpointTimestamp # 0
    /\ Len(indices) <= c.proofsRemaining
    /\ Range(indices) \subseteq c.verified \ c.checkpointed

VerifyCheckpointProofs(c, indices) ==
    LET left == c.proofsRemaining - Len(indices)
    IN  [c EXCEPT !.proofsRemaining = left,
                  !.checkpointed = IF left = 0 THEN {} ELSE @ \cup Range(indices),
                  !.currentCheckpointTimestamp = IF left = 0 THEN 0 ELSE @]

\* verifyWithdrawalCredentials(..., indices[], ...)
VerifyWithdrawalCredentials(c, indices) ==
    [c EXCEPT !.verified = @ \cup Range(indices)]

\* the validators of the pod whose credentials are not yet verified
Eligible(c) == c.podValidators \ c.verified

\* ------------------------------------------------------- proof generation
\* GenerateCheckpointProof: a balance proof for every validator the active
\* checkpoint still waits for, in index order
GenerateCheckpointProof(c) ==
    [isNil |-> FALSE, indices |-> SortedSeq(c.verified \ c.checkpointed)]

\* GenerateValidatorProof: proofs for the eligible validators, in index
\* order, narrowed to the specific index when one is given; nil proofs when
\* there is nothing to prove; an error when the specific index is not eligible
GenerateValidatorProof(c, filter) ==
    IF filter # NilInt
    THEN IF filter \subseteq Eligible(c)
         THEN [proofs |-> [isNil |-> FALSE, indices |-> SortedSeq(filter)],
               err |-> NoErr]
         ELSE [proofs |-> NilProofs, err |-> "ValidatorNotFoundError"]
    ELSE IF Eligible(c) = {}
         THEN [proofs |-> NilProofs, err |-> NoErr]
         ELSE [proofs |-> [isNil |-> FALSE, indices |-> SortedSeq(Eligible(c))],
               err |-> NoErr]

\* chunk(indices, batchSize): contiguous chunks, the last possibly smaller
RECURSIVE chunk(_, _)
chunk(arr, chunkSize) ==
    IF arr = <<>> THEN <<>>
    ELSE LET end == Min(chunkSize, Len(arr))
         IN  <<SubSeq(arr, 1, end)>> \o chunk(SubSeq(arr, end + 1, Len(arr)), chunkSize)

\* ------------------------------------------------------------ the inputs
Indices == 0..MaxValidatorIndex
Keys == {"", "0xkey"}

CheckpointArgs == [owner : Keys, forceCheckpoint : BOOLEAN]
CredentialsArgs == [owner : Keys]
CredentialsCommandArgs ==
    [Sender : Keys, SimulateTransaction : BOOLEAN,
     SpecificValidator : Indices \cup {MaxUint64}, BatchSize : 1..MaxBatchSize]

ArgsOf(c) ==
    CASE c = "checkpoint" -> CheckpointArgs
      [] c = "credentials" -> CredentialsArgs
      [] c = "CredentialsCommand" -> CredentialsCommandArgs

\* the pod on chain as a checkpoint run can find it: no checkpoint, or an
\* active one still waiting for some proofs
CheckpointChains ==
    { [podValidators |-> v, verified |-> v, checkpointed |-> done,
       currentCheckpointTimestamp |-> ts,
       proofsRemaining |-> IF ts = 0 THEN 0 ELSE Cardinality(v \ done),
       hasNativeEth |-> eth, blockTime |-> 2] :
        v \in SUBSET Indices, done \in SUBSET Indices,
        ts \in {0, 1}, eth \in BOOLEAN }

\* the pod on chain as a credentials run can find it
CredentialsChains ==
    { [podValidators |-> p, verified |-> v, checkpointed |-> {},
       currentCheckpointTimestamp |-> 0, proofsRemaining |-> 0,
       hasNativeEth |-> FALSE, blockTime |-> 2] :
        p \in SUBSET Indices, v \in SUBSET Indices }

ChainsOf(c) ==
    IF c = "checkpoint"
    THEN { x \in CheckpointChains :
             /\ x.checkpointed \subseteq x.verified
             /\ (x.currentCheckpointTimestamp # 0 => x.checkpointed # x.verified)
             /\ (x.currentCheckpointTimestamp = 0 => x.checkpointed = {}) }
    ELSE { x \in CredentialsChains : x.verified \subseteq x.podValidators }

FreshLocals ==
    /\ currentCheckpoint = 0
    /\ specificValidatorIndex = NilInt
    /\ proofs = NilProofs
    /\ chunks = <<>> /\ txns = <<>> /\ chunkI = 0 /\ err = NoErr
    /\ trace = <<>>

Init ==
    /\ eigenpodAddress = [has0x |-> TRUE, digits |-> <<>>]
    /\ allValidators = <<>>
    /\ outputValidators = <<>>
    /\ cmd \in {"checkpoint", "credentials", "CredentialsCommand"}
    /\ pc = "getClients"
    /\ args \in ArgsOf(cmd)
    /\ chain \in ChainsOf(cmd)
    /\ outcome = "running"
    /\ runs = 1
    /\ FreshLocals

\* the process ends in an error
Abort == pc' = "done" /\ outcome' = "error"
\* the action returns nil
ReturnNil == pc' = "done" /\ outcome' = "ok"

\* ------------------------------------------- main.go: getClients (shared)
\* getClients: Dial, ChainID, beacon client; any failure ends the process
GetClients ==
    /\ cmd \in {"checkpoint", "credentials"} /\ pc = "getClients"
    /\ \E ok \in BOOLEAN :
          /\ trace' = Append(trace, Ev("GetClients", <<>>, ok))
          /\ IF ok
             THEN /\ pc' = IF cmd = "checkpoint" THEN "getCurrentCheckpoint"
                                                 ELSE "generate"
                  /\ outcome' = outcome
             ELSE Abort
    /\ UNCHANGED <<scanVars, cmd, args, runs, chain, currentCheckpoint,
                   specificValidatorIndex, proofs, chunks, txns, chunkI, err>>

\* ------------------------------------------- main.go: the checkpoint action
\* a faulty variant: a start is issued whenever an owner key is given
CheckpointBranchOwnerOnly(timestamp, owner) ==
    IF owner # "" THEN "startCheckpoint"
    ELSE IF timestamp = 0 THEN "abort" ELSE "generate"

\* if currentCheckpoint == 0 { if owner != nil { start } else { panic } }
CheckpointBranch(timestamp, owner) ==
    IF timestamp = 0
    THEN IF owner # "" THEN "startCheckpoint" ELSE "abort"
    ELSE "generate"

\* getCurrentCheckpoint and the decision that follows it
CheckpointGetCurrent ==
    /\ cmd = "checkpoint" /\ pc = "getCurrentCheckpoint"
    /\ \E ok \in BOOLEAN :
          /\ trace' = Append(trace,
                Ev("getCurrentCheckpoint",
                   IF ok THEN <<chain.currentCheckpointTimestamp>> ELSE <<>>, ok))
          /\ IF ~ok
             THEN Abort /\ UNCHANGED currentCheckpoint
             ELSE LET timestamp == chain.currentCheckpointTimestamp
                      to == CheckpointBranch(timestamp, args.owner)
                  IN  /\ currentCheckpoint' = timestamp
                      /\ IF to = "abort" THEN Abort
                         ELSE pc' = to /\ outcome' = outcome
    /\ UNCHANGED <<scanVars, cmd, args, runs, chain, specificValidatorIndex,
                   proofs, chunks, txns, chunkI, err>>

\* startCheckpoint(ctx, eigenpodAddress, *owner, chainId, eth, forceCheckpoint)
CheckpointStart ==
    /\ cmd = "checkpoint" /\ pc = "startCheckpoint"
    /\ \E sent \in BOOLEAN :
          LET accepted == sent /\ StartAllowed(chain, args.forceCheckpoint)
          IN  /\ trace' = Append(trace, Ev("startCheckpoint", <<>>, accepted))
              /\ IF accepted
                 THEN /\ chain' = StartCheckpoint(chain)
                      /\ currentCheckpoint' = chain.blockTime
                      /\ pc' = "generate" /\ outcome' = outcome
                 ELSE Abort /\ UNCHANGED <<chain, currentCheckpoint>>
    /\ UNCHANGED <<scanVars, cmd, args, runs, specificValidatorIndex, proofs,
                   chunks, txns, chunkI, err>>

\* proof := GenerateCheckpointProof(...)
CheckpointGenerate ==
    /\ cmd = "checkpoint" /\ pc = "generate"
    /\ \E ok \in BOOLEAN :
          /\ trace' = Append(trace, Ev("Generate", <<>>, ok))
          /\ IF ok
             THEN /\ proofs' = GenerateCheckpointProof(chain)
                  /\ pc' = "write" /\ outcome' = outcome
             ELSE Abort /\ UNCHANGED proofs
    /\ UNCHANGED <<scanVars, cmd, args, runs, chain, currentCheckpoint,
                   specificValidatorIndex, chunks, txns, chunkI, err>>

\* json.Marshal, WriteOutputToFileOrStdout (both commands of main.go)
WriteOutput ==
    /\ cmd \in {"checkpoint", "credentials"} /\ pc = "write"
    /\ trace' = Append(trace, Ev("write", proofs.indices, TRUE))
    /\ IF args.owner # ""
       THEN pc' = "submit" /\ outcome' = outcome
       ELSE ReturnNil
    /\ UNCHANGED <<scanVars, cmd, args, runs, chain, currentCheckpoint,
                   specificValidatorIndex, proofs, chunks, txns, chunkI, err>>

\* a faulty variant: the last balance proof is left out of the call
SubmittedBalanceProofsDropLast(p) == SubSeq(p.indices, 1, Len(p.indices) - 1)

\* castBalanceProofs(proof.BalanceProofs): every generated balance proof
SubmittedBalanceProofs(p) == p.indices

\* if owner != nil { prepareAccount; NewEigenPod; VerifyCheckpointProofs }
CheckpointSubmit ==
    /\ cmd = "checkpoint" /\ pc = "submit"
    /\ \E step \in {"prepareAccount fails", "transaction fails", "sent"} :
          LET indices == SubmittedBalanceProofs(proofs)
              accepted == step = "sent" /\ VerifyCheckpointAllowed(chain, indices)
          IN  IF step = "prepareAccount fails"
              THEN /\ Abort
                   /\ UNCHANGED <<chain, txns, trace>>
              ELSE IF accepted
                   THEN /\ chain' = VerifyCheckpointProofs(chain, indices)
                        /\ txns' = <<[chunk |-> 0, indices |-> indices]>>
                        /\ trace' = trace \o <<Ev("send", indices, TRUE),
                                               Ev("print_tx", indices, TRUE)>>
                        /\ ReturnNil
                   ELSE /\ trace' = Append(trace, Ev("send", indices, FALSE))
                        /\ Abort
                        /\ UNCHANGED <<chain, txns>>
    /\ UNCHANGED <<scanVars, cmd, args, runs, currentCheckpoint,
                   specificValidatorIndex, proofs, chunks, chunkI, err>>

\* ------------------------------------------ main.go: the credentials action
\* validatorProofs, validatorIndices := GenerateValidatorProof(...);
\* if validatorProofs == nil || validatorIndices == nil { return nil }
CredentialsGenerate ==
    /\ cmd = "credentials" /\ pc = "generate"
    /\ \E ok \in BOOLEAN :
          /\ trace' = Append(trace, Ev("Generate", <<>>, ok))
          /\ IF ~ok
             THEN Abort /\ UNCHANGED proofs
             ELSE LET r == GenerateValidatorProof(chain, NilInt)
                  IN  /\ proofs' = r.proofs
                      /\ IF r.proofs.isNil
                         THEN ReturnNil
                         ELSE pc' = "write" /\ outcome' = outcome
    /\ UNCHANGED <<scanVars, cmd, args, runs, chain, currentCheckpoint,
                   specificValidatorIndex, chunks, txns, chunkI, err>>

\* if owner != nil { prepareAccount; NewEigenPod; BlockByNumber;
\*                   VerifyWithdrawalCredentials }
CredentialsSubmit ==
    /\ cmd = "credentials" /\ pc = "submit"
    /\ \E step \in {"prepareAccount fails", "BlockByNumber fails",
                    "transaction fails", "sent"} :
          CASE step = "prepareAccount fails" ->
                 /\ Abort
                 /\ UNCHANGED <<chain, txns, trace>>
            [] step = "BlockByNumber fails" ->
                 /\ trace' = Append(trace, Ev("BlockByNumber", <<>>, FALSE))
                 /\ Abort
                 /\ UNCHANGED <<chain, txns>>
            [] step = "transaction fails" ->
                 /\ trace' = trace \o <<Ev("BlockByNumber", <<>>, TRUE),
                                        Ev("send", proofs.indices, FALSE)>>
                 /\ Abort
                 /\ UNCHANGED <<chain, txns>>
            [] step = "sent" ->
                 /\ chain' = VerifyWithdrawalCredentials(chain, proofs.indices)
                 /\ txns' = <<[chunk |-> 0, indices |-> proofs.indices]>>
                 /\ trace' = trace \o <<Ev("BlockByNumber", <<>>, TRUE),
                                        Ev("send", proofs.indices, TRUE),
                                        Ev("print_tx", proofs.indices, TRUE)>>
                 /\ ReturnNil
    /\ UNCHANGED <<scanVars, cmd, args, runs, currentCheckpoint,
                   specificValidatorIndex, proofs, chunks, chunkI, err>>

\* ------------------------------------------------ commands.CredentialsCommand
\* eth, beaconClient, chainId, err := core.GetClients(...); PanicOnError
CCGetClients ==
    /\ cmd = "CredentialsCommand" /\ pc = "getClients"
    /\ \E e \in {NoErr, "ConnectivityError"} :
          /\ trace' = Append(trace, Ev("GetClients", <<>>, e = NoErr))
          /\ IF PanicOnError(e)
             THEN Abort
             ELSE pc' = "validate" /\ outcome' = outcome
    /\ UNCHANGED <<scanVars, cmd, args, runs, chain, currentCheckpoint,
                   specificValidatorIndex, proofs, chunks, txns, chunkI, err>>

\* if args.SpecificValidator != math.MaxUint64 && args.SpecificValidator != 0
SpecificValidatorIndex(a) ==
    IF a.SpecificValidator # MaxUint64 /\ a.SpecificValidator # 0
    THEN {a.SpecificValidator}
    ELSE NilInt

\* if args.SimulateTransaction && len(args.Sender) > 0 { core.Panic(...) },
\* then the specific validator index
CCValidate ==
    /\ cmd = "CredentialsCommand" /\ pc = "validate"
    /\ IF args.SimulateTransaction /\ args.Sender # ""
       THEN /\ trace' = Append(trace, Ev("validation_error", <<>>, FALSE))
            /\ Abort
            /\ UNCHANGED specificValidatorIndex
       ELSE /\ specificValidatorIndex' = SpecificValidatorIndex(args)
            /\ pc' = "generate" /\ outcome' = outcome
            /\ UNCHANGED trace
    /\ UNCHANGED <<scanVars, cmd, args, runs, chain, currentCheckpoint,
                   proofs, chunks, txns, chunkI, err>>

\* validatorProofs, oracleBeaconTimestamp, err := core.GenerateValidatorProof(
\*     ..., specificValidatorIndex, ...)
\* if err != nil || validatorProofs == nil { PanicOnError; Panic }
\* if len(args.Sender) != 0 || args.SimulateTransaction { ... } return nil
CCGenerate ==
    /\ cmd = "CredentialsCommand" /\ pc = "generate"
    /\ \E reached \in BOOLEAN :
          LET r == IF reached
                   THEN GenerateValidatorProof(chain, specificValidatorIndex)
                   ELSE [proofs |-> NilProofs, err |-> "ConnectivityError"]
          IN  /\ proofs' = r.proofs
              /\ IF r.err # NoErr \/ r.proofs.isNil
                 THEN /\ trace' = trace \o <<Ev("Generate", <<>>, r.err = NoErr),
                                             Ev("panic", <<>>, FALSE)>>
                      /\ Abort
                 ELSE /\ trace' = Append(trace, Ev("Generate", <<>>, TRUE))
                      /\ IF args.Sender # "" \/ args.SimulateTransaction
                         THEN pc' = "submit" /\ outcome' = outcome
                         ELSE ReturnNil
    /\ UNCHANGED <<scanVars, cmd, args, runs, chain, currentCheckpoint,
                   specificValidatorIndex, chunks, txns, chunkI, err>>

\* a faulty variant: the batch size handed over is one more than the one asked for
SubmitBatchSizePlusOne(a) == a.BatchSize + 1

\* the batch size CredentialsCommand hands to core.SubmitValidatorProof
SubmitBatchSize(a) == a.BatchSize

\* txns, indices, err := core.SubmitValidatorProof(..., args.BatchSize,
\*     validatorProofs, ...): the indices are split into chunks
CCSubmitCall ==
    /\ cmd = "CredentialsCommand" /\ pc = "submit"
    /\ chunks' = chunk(proofs.indices, SubmitBatchSize(args))
    /\ txns' = <<>> /\ chunkI' = 0 /\ err' = NoErr
    /\ pc' = "submitChunk"
    /\ UNCHANGED <<scanVars, cmd, args, outcome, runs, chain, currentCheckpoint,
                   specificValidatorIndex, proofs, trace>>

\* core.SubmitValidatorProof, one chunk: the transaction of chunk chunkI is
\* sent (or only built, when simulating); the first failure returns
CCSubmitChunk ==
    /\ cmd = "CredentialsCommand" /\ pc = "submitChunk"
    /\ chunkI < Len(chunks)
    /\ \E ok \in BOOLEAN :
          LET indices == chunks[chunkI + 1]
              kind == IF args.SimulateTransaction THEN "simulate" ELSE "send"
          IN  /\ trace' = Append(trace, Ev(kind, indices, ok))
              /\ IF ok
                 THEN /\ txns' = Append(txns, [chunk |-> chunkI, indices |-> indices])
                      /\ chain' = IF args.SimulateTransaction THEN chain
                                  ELSE VerifyWithdrawalCredentials(chain, indices)
                      /\ chunkI' = chunkI + 1
                      /\ pc' = IF chunkI + 1 < Len(chunks) THEN "submitChunk"
                                                           ELSE "report"
                      /\ UNCHANGED err
                 ELSE /\ err' = "SubmissionError"
                      /\ pc' = "report"
                      /\ UNCHANGED <<txns, chain, chunkI>>
    /\ UNCHANGED <<scanVars, cmd, args, outcome, runs, currentCheckpoint,
                   specificValidatorIndex, proofs, chunks>>

\* PanicOnError("failed to submit/simulate validator proof", err), then
\* printProofs(out) when simulating, the transaction hashes otherwise
CCReport ==
    /\ cmd = "CredentialsCommand" /\ pc = "report"
    /\ IF PanicOnError(err)
       THEN /\ trace' = Append(trace, Ev("panic", <<>>, FALSE))
            /\ Abort
       ELSE /\ trace' = trace \o
                 [k \in 1..Len(txns) |->
                     IF args.SimulateTransaction
                     THEN Ev("print_calldata", aFlatten(chunks), TRUE)
                     ELSE Ev("print_tx", txns[k].indices, TRUE)]
            /\ ReturnNil
    /\ UNCHANGED <<scanVars, cmd, args, runs, chain, currentCheckpoint,
                   specificValidatorIndex, proofs, chunks, txns, chunkI, err>>

\* ------------------------------------------------------ the next invocation
\* the command is run again, with new flags, against the chain as it is now
Reinvoke ==
    /\ cmd \in {"checkpoint", "credentials", "CredentialsCommand"}
    /\ pc = "done"
    /\ runs < MaxRuns
    /\ runs' = runs + 1
    /\ args' \in ArgsOf(cmd)
    /\ pc' = "getClients" /\ outcome' = "running"
    /\ currentCheckpoint' = 0
    /\ specificValidatorIndex' = NilInt
    /\ proofs' = NilProofs
    /\ chunks' = <<>> /\ txns' = <<>> /\ chunkI' = 0 /\ err' = NoErr
    /\ trace' = <<>>
    /\ UNCHANGED <<scanVars, cmd, chain>>

Next ==
    \/ GetClients
    \/ CheckpointGetCurrent
    \/ CheckpointStart
    \/ CheckpointGenerate
    \/ WriteOutput
    \/ CheckpointSubmit
    \/ CredentialsGenerate
    \/ CredentialsSubmit
    \/ CCGetClients
    \/ CCValidate
    \/ CCGenerate
    \/ CCSubmitCall
    \/ CCSubmitChunk
    \/ CCReport
    \/ Reinvoke

Spec == Init /\ [][Next]_vars

\* ------------------------------------------------------------- C2
PoolBytes == FromHex(eigenpodAddress)
Matches(v) ==
    /\ v # Nil
    /\ v.WithdrawalCredentials[1] = 1
    /\ Len(PoolBytes) = 20
    /\ \A j \in 1..20 : v.WithdrawalCredentials[12 + j] = PoolBytes[j]

\* C2: the scan returns exactly the non-nil validators whose credentials
\* start with byte 1 and end (bytes 12..31) with the pool address bytes, each
\* with its position in the list as Index, in strictly ascending index order.
ScanReturnsExactlyTheMatches ==
    pc = "scanned" =>
        /\ \A k \in 1..Len(outputValidators) :
              /\ outputValidators[k].Index \in 0..(Len(allValidators) - 1)
              /\ outputValidators[k].Validator
                    = allValidators[outputValidators[k].Index + 1]
              /\ Matches(outputValidators[k].Validator)
        /\ \A i \in 0..(Len(allValidators) - 1) :
              Matches(allValidators[i + 1])
                 => \E k \in 1..Len(outputValidators) : outputValidators[k].Index = i
        /\ \A k \in 1..(Len(outputValidators) - 1) :
              outputValidators[k].Index < outputValidators[k + 1].Index

ScanWitness ==
    /\ pc = "scanned"
    /\ Len(allValidators) = MaxScanLen
    /\ Len(outputValidators) = 2
    /\ \E i \in 1..Len(allValidators) :
          /\ allValidators[i] # Nil
          /\ allValidators[i].WithdrawalCredentials[1] # 1
          /\ BytesEqual(PoolBytes, SubSeq(allValidators[i].WithdrawalCredentials, 13, 32))

\* ------------------------------------------------- reading the trace
Events(kinds) == { k \in 1..Len(trace) : trace[k].kind \in kinds }
Happened(kind) == Events({kind}) # {}
Done == pc = "done"
InCC == cmd = "CredentialsCommand"
Submissions == Events({"send", "simulate"})
Emissions == Events({"write", "print_calldata"})

\* ------------------------------------------------------------- C1
\* C1: with both a sender and simulate-only mode, CredentialsCommand fails
\* with the validation error before any call to an execution-layer or beacon
\* client, and neither generates nor submits a proof.
ValidationErrorBeforeAnyNetworkCall ==
    (InCC /\ Done /\ args.SimulateTransaction /\ args.Sender # "") =>
        /\ Happened("validation_error")
        /\ Events(NetworkKinds) = {}
        /\ Submissions = {}

\* ------------------------------------------------------------- C3
\* C3: when proof generation returns no proofs and no error, the credentials
\* command ends without an error, writes no proof document and sends or
\* simulates no transaction.
NothingToProveEndsCleanly ==
    (/\ cmd \in {"credentials", "CredentialsCommand"}
     /\ Done
     /\ \E k \in Events({"Generate"}) : trace[k].ok
     /\ proofs.isNil) =>
        /\ outcome = "ok"
        /\ Emissions = {}
        /\ Submissions = {}

\* ------------------------------------------------------------- C4
\* C4: in Send mode, when the submission of chunk i fails, no later chunk is
\* attempted, the chunks before i stay verified on chain, and the transactions
\* of the chunks before i are reported to the user.
FailedChunkKeepsAndReportsEarlierOnes ==
    (InCC /\ Done /\ ~args.SimulateTransaction /\ err # NoErr) =>
        /\ Cardinality(Events({"send"})) = chunkI + 1
        /\ \A j \in 1..chunkI : Range(chunks[j]) \subseteq chain.verified
        /\ \A j \in 1..chunkI :
              \E k \in Events({"print_tx"}) : trace[k].data = chunks[j]

\* ------------------------------------------------------------- C5
SuccessfulCheckpointSubmission ==
    cmd = "checkpoint" /\ pc = "submit" /\ outcome' = "ok"

\* C5: proofsRemaining is never negative and is 0 exactly when no checkpoint
\* is active; a successful verifyCheckpointProofs submission of the checkpoint
\* command, carrying the k generated balance proofs, leaves proofsRemaining at
\* its value before minus k, which is 0, and no checkpoint active.
ProofsRemainingCountsDown ==
    /\ [](cmd = "checkpoint" =>
            /\ chain.proofsRemaining >= 0
            /\ (chain.proofsRemaining = 0 <=> chain.currentCheckpointTimestamp = 0))
    /\ [][SuccessfulCheckpointSubmission =>
            /\ chain'.proofsRemaining = chain.proofsRemaining - Len(proofs.indices)
            /\ chain'.proofsRemaining = 0
            /\ chain'.currentCheckpointTimestamp = 0]_vars

CheckpointCompletedWitness ==
    /\ cmd = "checkpoint" /\ Done /\ outcome = "ok"
    /\ \E k \in Events({"send"}) : trace[k].ok /\ Len(trace[k].data) = 3
    /\ chain.proofsRemaining = 0

\* ------------------------------------------------------------- C6
Read == Events({"getCurrentCheckpoint"})
Starts == Events({"startCheckpoint"})

\* C6: the checkpoint command calls startCheckpoint exactly when the
\* timestamp it read is 0 and an owner key was given, at most once; with a
\* checkpoint active no start is issued; with none active and no owner key the
\* run ends in an error with nothing generated or written; and a start goes
\* through only when the pod has native ETH or the force flag is set.
StartOnlyWhenNoneActiveAndOwner ==
    cmd = "checkpoint" =>
        /\ Cardinality(Starts) <= 1
        /\ \A k \in Starts :
              /\ args.owner # ""
              /\ k > 1 /\ trace[k - 1] = Ev("getCurrentCheckpoint", <<0>>, TRUE)
              /\ (trace[k].ok => (args.forceCheckpoint \/ chain.hasNativeEth))
              /\ (~trace[k].ok => outcome = "error"
                                  /\ Events({"Generate", "write", "send"}) = {})
        /\ \A k \in Read :
              (trace[k].ok /\ pc # "startCheckpoint") =>
                  /\ (Starts # {} <=> (trace[k].data = <<0>> /\ args.owner # ""))
                  /\ (trace[k].data = <<0>> /\ args.owner = "") =>
                        /\ Done /\ outcome = "error"
                        /\ Events({"Generate", "write", "send"}) = {}

StartIssuedWitness ==
    /\ cmd = "checkpoint" /\ Done /\ outcome = "ok"
    /\ ~args.forceCheckpoint
    /\ \E k \in Starts : trace[k].ok

\* ------------------------------------------------------------- C7
\* C7: whenever a specific validator v is given (any index, 0 included),
\* proof generation is invoked with the filter set to v.
SpecificValidatorIsTheFilter ==
    (InCC /\ Happened("Generate") /\ args.SpecificValidator # MaxUint64) =>
        specificValidatorIndex = {args.SpecificValidator}

\* ------------------------------------------------------------- C8
Chunked == InCC /\ (pc \in {"submitChunk", "report"} \/ (Done /\ chunks # <<>>))
CeilDiv(n, b) == (n + b - 1) \div b

\* C8: N indices and batch size B >= 1 give ceil(N/B) chunks; every chunk but
\* the last has B elements, the last N - B*(ceil(N/B)-1), none more than B;
\* the chunks concatenated are the original indices; and the chunks are
\* submitted one after another in that order.
ChunksPartitionInOrder ==
    Chunked =>
        LET N == Len(proofs.indices)
            B == args.BatchSize
            n == Len(chunks)
            order == SortedSeq(Submissions)
        IN  /\ n = CeilDiv(N, B)
            /\ \A j \in 1..(n - 1) : Len(chunks[j]) = B
            /\ Len(chunks[n]) = N - B * (CeilDiv(N, B) - 1)
            /\ \A j \in 1..n : Len(chunks[j]) \in 1..B
            /\ aFlatten(chunks) = proofs.indices
            /\ Len(order) <= n
            /\ \A j \in 1..Len(order) : trace[order[j]].data = chunks[j]
            /\ \A j \in 1..(Len(order) - 1) : trace[order[j]].ok

ChunksWitness ==
    /\ Chunked /\ Done /\ outcome = "ok"
    /\ Len(proofs.indices) = 3 /\ args.BatchSize = 2
    /\ Len(chunks) = 2
    /\ Cardinality(Submissions) = 2

\* ------------------------------------------------------------- C9
ThreeToSubmit ==
    /\ cmd = "checkpoint" /\ Done
    /\ ~proofs.isNil /\ Len(proofs.indices) = 3
    /\ Events({"send"}) # {}

HasKey ==
    IF InCC THEN args.Sender # "" ELSE args.owner # ""

\* C10: a run without a key that generated proofs emits the proof document
\* and sends no transaction; a run with a key emits the proof document before
\* it attempts the submission.
ProofDocumentNeedsNoSigner ==
    (Done /\ ~proofs.isNil) =>
        /\ ~HasKey =>
              /\ outcome = "ok" => Emissions # {}
              /\ Events({"send", "startCheckpoint"}) = {}
        /\ HasKey =>
              \A k \in Events({"send"}) : \E j \in Events({"write"}) : j < k
====
